---- MODULE Spec2Model ----
(***************************************************************************)
(* A model of the console chat bot of "C++ Chat bot/chat.cpp": the input   *)
(* normalizer, the command router and response resolver of                 *)
(* ChatBot::processInput, the calculator sub-session, the history log and  *)
(* the outer loop of ChatBot::run.                                         *)
(*                                                                         *)
(* Text is modelled by TLA+ strings, which TLC treats as sequences of      *)
(* characters (Len, SubSeq, Head, Tail and \o apply to them).  The         *)
(* response texts are the source's with the non-ASCII glyphs (emoji,       *)
(* dashes) left out, since a module is ASCII; the presentation (colours,   *)
(* banner art, separators) is not modelled.                                *)
(***************************************************************************)
EXTENDS Integers, Sequences, FiniteSets, TLC

VARIABLES pc, running_, history_, eof, out, goodbyes, chatLog, calcReads, last

vars == <<pc, running_, history_, eof, out, goodbyes, chatLog, calcReads, last>>

(***************************************************************************)
(* Characters and strings                                                  *)
(***************************************************************************)

Min(a, b) == IF a < b THEN a ELSE b

\* the element of a one-element set.  A value bound by x \in {e} is computed
\* once, where a LET definition is recomputed at each use
Only(S) == CHOOSE x \in S : TRUE

\* s[i] of a std::string, 1-based here
CharAt(s, i) == SubSeq(s, i, i)

\* s.substr(pos, n): at most n characters from the 0-based position pos
Substr(s, pos, n) == SubSeq(s, pos + 1, Min(pos + n, Len(s)))

\* s.substr(pos): everything from the 0-based position pos
SubstrFrom(s, pos) == SubSeq(s, pos + 1, Len(s))

\* s.find(k) != npos
Contains(s, k) ==
    \E i \in 1..(Len(s) - Len(k) + 1) : SubSeq(s, i, i + Len(k) - 1) = k

UpperLetters == "ABCDEFGHIJKLMNOPQRSTUVWXYZ"
LowerLetters == "abcdefghijklmnopqrstuvwxyz"

\* std::tolower on one character (C locale)
tolowerChar(c) ==
    IF \E i \in 1..26 : CharAt(UpperLetters, i) = c
    THEN CharAt(LowerLetters, CHOOSE i \in 1..26 : CharAt(UpperLetters, i) = c)
    ELSE c

RECURSIVE toLower(_)
toLower(s) ==
    IF s = "" THEN "" ELSE tolowerChar(Head(s)) \o toLower(Tail(s))

\* the characters trim strips: " \t\r\n"
TrimChars == {" ", "\t", "\r", "\n"}

\* mutant of trim: at most one character is stripped at each end
trim_OneEachSide(s) ==
    LET a == IF s # "" /\ Head(s) \in TrimChars THEN Tail(s) ELSE s
    IN  IF a # "" /\ CharAt(a, Len(a)) \in TrimChars
        THEN SubSeq(a, 1, Len(a) - 1) ELSE a

\* Util::trim: from the first to the last character outside " \t\r\n"
trim(s) ==
    LET keep  == {i \in 1..Len(s) : CharAt(s, i) \notin TrimChars}
        start == CHOOSE i \in keep : \A j \in keep : i <= j
        end   == CHOOSE i \in keep : \A j \in keep : i >= j
    IN  IF keep = {} THEN "" ELSE SubSeq(s, start, end)

normalize(s) == toLower(trim(s))

Digits == "0123456789"

\* std::to_string / operator<< of a non-negative integer
RECURSIVE ToStr(_)
ToStr(n) ==
    IF n < 10 THEN CharAt(Digits, n + 1)
    ELSE ToStr(n \div 10) \o CharAt(Digits, (n % 10) + 1)

\* Util::randomInt(min, max): the values the uniform draw can produce
randomInt(min, max) == min..max

\* mutant of formatDuration: the hours are not subtracted before the minutes
formatDuration_MinutesOfTotal(sec) ==
    LET h  == sec \div 3600
        m  == sec \div 60
        s2 == sec - m * 60
    IN  ToStr(h) \o "h " \o ToStr(m) \o "m " \o ToStr(s2) \o "s"

\* Util::formatDuration(sec), sec >= 0 whole seconds
formatDuration(sec) ==
    LET h  == sec \div 3600
        s1 == sec - h * 3600
        m  == s1 \div 60
        s2 == s1 - m * 60
    IN  ToStr(h) \o "h " \o ToStr(m) \o "m " \o ToStr(s2) \o "s"

(***************************************************************************)
(* The lexicon store: initResponses, initAliases, initJokes, initFacts     *)
(***************************************************************************)

\* the table initResponses fills in: canonical phrase -> response
initResponses ==
    ("hi" :> "Hello to you too!")
    @@ ("hello" :> "Hi there! How can I help you today?")
    @@ ("hey" :> "Hey!!! What's on your mind?")
    @@ ("good morning" :> "Good morning! Hope you're having a great start!")
    @@ ("good night" :> "Good night! Sweet dreams!")
    @@ ("how are you?" :> "I'm running at full clock speed - so pretty great! And you?")
    @@ ("what's up?" :> "Just processing bits and bytes. You?")
    @@ ("what's your name?" :> "I'm ChatBot - your friendly C++ console companion!")
    @@ ("who are you?" :> "I'm a chatbot written in modern C++ - originally created by Yunus Emre Vurgun in 2022, now modernized and enhanced.")
    @@ ("what are you?" :> "I'm a console-based chatbot. Think of me as a very talkative terminal program.")
    @@ ("are we friends?" :> "Absolutely! Friends don't let friends code alone.")
    @@ ("do you have feelings?" :> "I only cry when I smell onions... or see segfaults.")
    @@ ("are you a robot?" :> "Technically, yes - but I prefer 'digital conversationalist'.")
    @@ ("are you human?" :> "Nope! 100% compiled code. No coffee needed (but I wouldn't say no).")
    @@ ("do you have a brain?" :> "I have logic, loops, and a lot of if-else statements. Close enough?")
    @@ ("who made you?" :> "Originally programmed by Yunus Emre Vurgun. I've been upgraded since then!")
    @@ ("can you browse the net?" :> "No, I live entirely in your terminal. No internet access here!")
    @@ ("what are the main colors?" :> "The 11 basic colors are: black, white, red, green, yellow, blue, pink, gray, brown, orange, and purple.")
    @@ ("what is c++?" :> "C++ is a general-purpose programming language created by Bjarne Stroustrup as an extension of C - often called 'C with Classes'. It powers games, OSes, and... me!")
    @@ ("what is a computer program?" :> "A computer program is a sequence of instructions that a computer can execute. In its human-readable form, it's called source code. You're looking at one right now!")
    @@ ("can you speak other languages?" :> "Un poco espanol, mi amigo! Naber dostum! ...Okay, just English really.")
    @@ ("can you understand binary?" :> "01001000 01101001! ...Just kidding. I'm a program, not the CPU itself. But the instructions to run me ARE binary under the hood.")
    @@ ("how do you understand me?" :> "I match your input against patterns I know. It's not true understanding - more like a really enthusiastic lookup table!")
    @@ ("thank you" :> "You're welcome! Happy to help.")
    @@ ("thanks" :> "Anytime! That's what I'm here for.")
    @@ ("sorry" :> "No worries at all! What can I do for you?")
    @@ ("lol" :> "Glad I could make you laugh!")
    @@ ("haha" :> "I try my best!")
    @@ ("nice" :> "Thanks! You're pretty nice yourself!")
    @@ ("cool" :> "Right? I think so too.")
    @@ ("yes" :> "Great! What else would you like to talk about?")
    @@ ("no" :> "Alright, no problem. Anything else?")
    @@ ("ok" :> "Okay! I'm here if you need me.")
    @@ ("okay" :> "Sure thing! What's next?")

\* the table initAliases fills in: alternative phrase -> canonical phrase
initAliases ==
    ("sup" :> "what's up?")
    @@ ("what's up" :> "what's up?")
    @@ ("whats up" :> "what's up?")
    @@ ("howdy" :> "hi")
    @@ ("yo" :> "hey")
    @@ ("greetings" :> "hello")
    @@ ("what is your name?" :> "what's your name?")
    @@ ("what is your name" :> "what's your name?")
    @@ ("whats your name" :> "what's your name?")
    @@ ("your name?" :> "what's your name?")
    @@ ("who are you" :> "who are you?")
    @@ ("what are you" :> "what are you?")
    @@ ("are you a bot?" :> "are you a robot?")
    @@ ("are you a bot" :> "are you a robot?")
    @@ ("are you real?" :> "are you human?")
    @@ ("are you real" :> "are you human?")
    @@ ("who created you?" :> "who made you?")
    @@ ("who created you" :> "who made you?")
    @@ ("what is c++ ?" :> "what is c++?")
    @@ ("what is c++" :> "what is c++?")
    @@ ("what is cpp?" :> "what is c++?")
    @@ ("what is cpp" :> "what is c++?")
    @@ ("thx" :> "thanks")
    @@ ("ty" :> "thanks")
    @@ ("thank u" :> "thank you")
    @@ ("gm" :> "good morning")
    @@ ("gn" :> "good night")

\* jokes_ after initJokes
jokes_ ==
    << "Why do programmers prefer dark mode? Because light attracts bugs!",
       "A SQL query walks into a bar, sees two tables, and asks... 'Can I JOIN you?'",
       "There are only 10 types of people: those who understand binary and those who don't.",
       "Why was the JavaScript developer sad? Because he didn't Node how to Express himself.",
       "What's a programmer's favorite hangout place? Foo Bar!",
       "How many programmers does it take to change a light bulb? None - that's a hardware problem.",
       "Why do Java developers wear glasses? Because they can't C#!",
       "A programmer's wife tells him: 'Go to the store and buy a loaf of bread. If they have eggs, buy a dozen.' He comes home with 12 loaves of bread.",
       "!false - it's funny because it's true.",
       "Debugging: being the detective in a crime movie where you are also the murderer." >>

\* facts_ after initFacts
facts_ ==
    << "The first computer bug was an actual bug - a moth found in a Harvard Mark II computer in 1947.",
       "The first programmer in history was Ada Lovelace, who wrote algorithms for Charles Babbage's Analytical Engine in the 1840s.",
       "About 90% of the world's currency exists only on computers - not as physical cash.",
       "The QWERTY keyboard layout was designed in 1873 to prevent typewriter jams, not for typing speed.",
       "The first 1GB hard drive (1980) weighed about 550 pounds and cost $40,000.",
       "There are approximately 700 different programming languages in existence.",
       "The first computer mouse was made of wood, invented by Doug Engelbart in 1964.",
       "The average person mass-produces about 2.5 quintillion bytes of data every day.",
       "C++ was originally called 'C with Classes' before being renamed in 1983.",
       "The first website ever created is still online: info.cern.ch - built by Tim Berners-Lee in 1991." >>

\* the member responses_, immutable after the constructor
responses_ == initResponses

\* mutant of aliases_: an alias whose key collides with a canonical phrase
aliases_Colliding == ("thanks" :> "thank you") @@ initAliases

\* mutant of aliases_: an alias whose target is misspelt
aliases_BadTarget == ("sup" :> "whats up?") @@ initAliases

\* the member aliases_, immutable after the constructor
aliases_ == initAliases

(***************************************************************************)
(* Output: what one step prints, as a sequence of events.  kind names the  *)
(* branch of the code that printed, text is what botSay was given (the     *)
(* lines of botSayMultiline joined by "\n").                               *)
(***************************************************************************)

Ev(kind, text) == [kind |-> kind, text |-> text]

\* what processInput reports back to run: the output, running_ afterwards,
\* and whether runCalculator was entered
Outcome(events, running, calc) ==
    [out |-> events, running |-> running, calc |-> calc]

Said(events) == Outcome(events, TRUE, FALSE)

(***************************************************************************)
(* The command router: the conditions of ChatBot::processInput, in order   *)
(***************************************************************************)

\* mutant of IsExit: the token "q" forgotten
IsExit_NoQ(input) == input \in {"bye", "exit", "quit"}

IsExit(input) == input \in {"bye", "exit", "quit", "q"}

IsHelp(input) == input \in {"help", "manual", "commands"}

IsJoke(input) == input \in {"joke", "tell me a joke", "tell a joke"}

IsFact(input) == input \in {"fact", "tell me a fact", "fun fact"}

IsTime(input) ==
    input \in {"time", "date", "what time is it?", "what time is it",
               "what's the time?", "what is the date?", "what is the date"}

IsFlip(input) == input \in {"flip", "flip a coin", "coin flip", "coin"}

IsRoll(input) == input \in {"roll", "roll a dice", "roll dice", "dice"}

IsUptime(input) == input \in {"uptime", "session"}

IsHistory(input) == input \in {"history", "show history"}

IsClear(input) == input \in {"clear", "cls"}

\* mutant of IsReverse: the prefix compared over 7 characters, never equal
IsReverse_ShortPrefix(input) ==
    Substr(input, 0, 7) = "reverse " /\ Len(input) > 8

IsReverse(input) == Substr(input, 0, 8) = "reverse " /\ Len(input) > 8

IsCount(input) == Substr(input, 0, 6) = "count " /\ Len(input) > 6

IsCalculator(input) ==
    input \in {"calc", "calculate", "calculator", "math", "add", "sum",
               "add numbers", "can you add integers for me?",
               "can you calculate for me?"}

\* mutant of reversed: begin/end in place of rbegin/rend, a plain copy
reversed_Forward(text) == text

\* std::string reversed(text.rbegin(), text.rend())
RECURSIVE reversed(_)
reversed(text) ==
    IF text = "" THEN "" ELSE reversed(Tail(text)) \o Head(text)


\* the characters operator>> skips and splits on (std::isspace, C locale;
\* the vertical tab has no TLA+ escape and is in no modelled line)
SpaceChars == {" ", "\t", "\n", "\r", "\f"}

\* mutant of CountWords: one more than the number of separators
CountWords_SeparatorsPlusOne(text) ==
    Cardinality({i \in 1..Len(text) : CharAt(text, i) \in SpaceChars}) + 1

\* while (iss >> word) ++count
CountWords(text) ==
    Cardinality({i \in 1..Len(text) :
        /\ CharAt(text, i) \notin SpaceChars
        /\ (i = 1 \/ CharAt(text, i - 1) \in SpaceChars)})

\* Util::currentDateTime(): the clock is the environment's; two readings
currentDateTime ==
    {"Sunday, November 01, 2026  09:05:00 AM",
     "Monday, November 02, 2026  11:59:59 PM"}

\* steady_clock::now() - sessionStart_ in whole seconds: sample readings
ElapsedSamples == {0, 3661}

(***************************************************************************)
(* showHistory                                                             *)
(***************************************************************************)

HistoryWindow == 20

\* mutant of HistoryStart: the window is one entry short
HistoryStart_OffByOne(n) ==
    IF n > HistoryWindow - 1 THEN n - (HistoryWindow - 1) ELSE 0

\* size_t start = history_.size() > 20 ? history_.size() - 20 : 0
HistoryStart(n) == IF n > HistoryWindow THEN n - HistoryWindow ELSE 0

\* the listing: entries are the printed <<number, message>> pairs, from
\* i = start while i < size, printing i + 1 and history_[i] (0-based there)
showHistory(hist) ==
    IF hist = <<>>
    THEN <<Ev("history-empty", "No conversation history yet!")>>
    ELSE LET n     == Len(hist)
             start == HistoryStart(n)
         IN  <<[kind    |-> "history",
                entries |-> [j \in 1..(n - start) |->
                                <<start + j, hist[start + j]>>],
                text    |-> "Showing last " \o ToStr(n - start) \o " of "
                            \o ToStr(n) \o " messages."]>>

(***************************************************************************)
(* The response resolver: the tail of ChatBot::processInput                *)
(***************************************************************************)

MinKeyLen == 3

\* mutant of PartialKeys: the length test forgotten
PartialKeys_AnyLength(input) ==
    {key \in DOMAIN responses_ : Contains(input, key)}

\* the keys the partial-match loop can stop at
PartialKeys(input) ==
    {key \in DOMAIN responses_ : Contains(input, key) /\ Len(key) >= MinKeyLen}

NoMatchText ==
    "Hmm, I don't quite understand that.\nTry 'help' to see what I can do, or just say hi!"

\* alias first, then the direct lookup, then the scan of responses_ (an
\* unordered_map: the iteration order is unspecified, so any matching key
\* may be the first met), then the no-match message
resolve(input) ==
    IF input \in DOMAIN aliases_ /\ aliases_[input] \in DOMAIN responses_
    THEN {Said(<<Ev("alias", responses_[aliases_[input]])>>)}
    ELSE IF input \in DOMAIN responses_
    THEN {Said(<<Ev("direct", responses_[input])>>)}
    ELSE IF PartialKeys(input) # {}
    THEN {Said(<<Ev("partial", responses_[key])>>) : key \in PartialKeys(input)}
    ELSE {Said(<<Ev("nomatch", NoMatchText)>>)}

CalculatorBanner ==
    "Calculator Mode!\nEnter an expression like: 42 + 18\nSupported operators: + - * /\nType 'done' to exit calculator."

\* ChatBot::processInput(input) with history_ = hist, when the clock can
\* read any of Elapsed whole seconds since sessionStart_: the set of outcomes
\* (one per value of the random draws, the clock and the map's order).  The
\* uptime event keeps the reading the line was formatted from.
processInputAt(input, hist, Elapsed) ==
    IF IsExit(input) THEN {Outcome(<<>>, FALSE, FALSE)}
    ELSE IF IsHelp(input) THEN {Said(<<Ev("help", "AVAILABLE COMMANDS")>>)}
    ELSE IF IsJoke(input)
    THEN {Said(<<Ev("joke", jokes_[i + 1])>>) : i \in randomInt(0, Len(jokes_) - 1)}
    ELSE IF IsFact(input)
    THEN {Said(<<Ev("fact", facts_[i + 1])>>) : i \in randomInt(0, Len(facts_) - 1)}
    ELSE IF IsTime(input)
    THEN {Said(<<Ev("time", t)>>) : t \in currentDateTime}
    ELSE IF IsFlip(input)
    THEN {Said(<<Ev("flip", IF r # 0 THEN "Heads!" ELSE "Tails!")>>) :
            r \in randomInt(0, 1)}
    ELSE IF IsRoll(input)
    THEN {Said(<<Ev("roll", "You rolled a " \o ToStr(val) \o "!")>>) :
            val \in randomInt(1, 6)}
    ELSE IF IsUptime(input)
    THEN {Said(<<[kind    |-> "uptime",
                  elapsed |-> elapsed,
                  text    |-> "Session uptime: " \o formatDuration(elapsed)
                              \o " | Messages: " \o ToStr(Len(hist))]>>) :
            elapsed \in Elapsed}
    ELSE IF IsHistory(input) THEN {Said(showHistory(hist))}
    ELSE IF IsClear(input)
    THEN {Said(<<Ev("clear", "Screen cleared!")>>)}
    ELSE IF IsReverse(input)
    THEN {Said(<<Ev("reverse", "\"" \o reversed(SubstrFrom(input, 8)) \o "\"")>>)}
    ELSE IF IsCount(input)
    THEN {Said(<<Ev("count", "Word count: "
                     \o ToStr(CountWords(SubstrFrom(input, 6))))>>)}
    ELSE IF IsCalculator(input)
    THEN {Outcome(<<Ev("calculator", CalculatorBanner)>>, TRUE, TRUE)}
    ELSE resolve(input)

\* processInput with the sample readings of the clock
processInput(input, hist) == processInputAt(input, hist, ElapsedSamples)

(***************************************************************************)
(* The calculator's numbers.  A double is modelled by its sign bit and the *)
(* exact rational magnitude num/den; the modelled operands are short       *)
(* decimals, for which double arithmetic differs from the exact value by   *)
(* less than any printed digit, except at an exact tie of the fifth        *)
(* decimal, where either neighbour may be printed.                         *)
(***************************************************************************)

RECURSIVE Gcd(_, _)
Gcd(a, b) == IF b = 0 THEN a ELSE Only({Gcd(b, r) : r \in {a % b}})

\* the double of sign neg and magnitude num/den, in lowest terms
Num(neg, num, den) ==
    Only({[neg |-> neg, num |-> num \div g, den |-> den \div g] :
            g \in {IF num = 0 THEN den ELSE Gcd(num, den)}})

RECURSIVE Pow10(_)
Pow10(n) == IF n = 0 THEN 1 ELSE 10 * Pow10(n - 1)

IsDigit(c) == c # "" /\ Contains(Digits, c)

DigitVal(c) == (CHOOSE d \in 1..10 : CharAt(Digits, d) = c) - 1

RECURSIVE NatOf(_)
NatOf(ds) ==
    IF ds = "" THEN 0
    ELSE NatOf(SubSeq(ds, 1, Len(ds) - 1)) * 10 + DigitVal(CharAt(ds, Len(ds)))

\* the last index of the run of digits of s that starts at i (i - 1: none)
RECURSIVE EndOfDigits(_, _)
EndOfDigits(s, i) ==
    IF i <= Len(s) /\ IsDigit(CharAt(s, i)) THEN EndOfDigits(s, i + 1) ELSE i - 1

\* the first index at or after i of a character operator>> does not skip
RECURSIVE SkipSpace(_, _)
SkipSpace(s, i) ==
    IF i <= Len(s) /\ CharAt(s, i) \in SpaceChars THEN SkipSpace(s, i + 1) ELSE i

\* the value read: mantissa digits mant with fracLen of them after the
\* point, times ten to the exponent
Scanned(neg, mant, fracLen, expNeg, exp) ==
    IF expNeg
    THEN Num(neg, NatOf(mant), Pow10(fracLen) * Pow10(exp))
    ELSE Num(neg, NatOf(mant) * Pow10(exp), Pow10(fracLen))

\* the exponent part, from the position j2 + 1 after the mantissa: e or E,
\* a sign, digits.  An e with no digits after it makes the conversion fail.
ScanExponent(s, neg, mant, fracLen, j2) ==
    LET hasExp  == mant # "" /\ j2 + 1 <= Len(s) /\ CharAt(s, j2 + 1) \in {"e", "E"}
        hasESgn == hasExp /\ j2 + 2 <= Len(s) /\ CharAt(s, j2 + 2) \in {"+", "-"}
        i3      == IF hasESgn THEN j2 + 3 ELSE j2 + 2
        Read(j3) ==
            LET expDs == IF hasExp THEN SubSeq(s, i3, j3) ELSE ""
                ok    == mant # "" /\ (hasExp => expDs # "")
            IN  [ok   |-> ok,
                 val  |-> IF ok
                          THEN Scanned(neg, mant, fracLen,
                                       hasESgn /\ CharAt(s, j2 + 2) = "-",
                                       NatOf(expDs))
                          ELSE Num(FALSE, 0, 1),
                 next |-> j3 + 1]
    IN  Only({Read(j3) : j3 \in {IF hasExp THEN EndOfDigits(s, i3) ELSE j2}})

\* the digits before the point end at j1; the point and the digits after it
ScanFraction(s, neg, i1, j1) ==
    LET hasDot == j1 + 1 <= Len(s) /\ CharAt(s, j1 + 1) = "."
        Read(j2) ==
            ScanExponent(s, neg,
                         SubSeq(s, i1, j1)
                            \o (IF hasDot THEN SubSeq(s, j1 + 2, j2) ELSE ""),
                         IF hasDot THEN j2 - (j1 + 1) ELSE 0, j2)
    IN  Only({Read(j2) : j2 \in {IF hasDot THEN EndOfDigits(s, j1 + 2) ELSE j1}})

\* the sign at i0, if any, and the digits before the point
ScanNumber(s, i0) ==
    LET hasSign == i0 <= Len(s) /\ CharAt(s, i0) \in {"+", "-"}
        i1      == IF hasSign THEN i0 + 1 ELSE i0
    IN  Only({ScanFraction(s, hasSign /\ CharAt(s, i0) = "-", i1, j1) :
                j1 \in {EndOfDigits(s, i1)}})

\* iss >> double from the 1-based position i (libstdc++ num_get): skip
\* spaces, then [sign] digits [. digits] [e [sign] digits]; the collected
\* text must convert as a whole.  ok: the extraction succeeded; val: the
\* value; next: the position after what was read.
ExtractDouble(s, i) ==
    Only({ScanNumber(s, i0) : i0 \in {SkipSpace(s, i)}})

\* iss >> char from the position i: skip spaces, then one character
ExtractChar(s, i) ==
    Only({[ok   |-> i0 <= Len(s),
           val  |-> IF i0 <= Len(s) THEN CharAt(s, i0) ELSE "",
           next |-> i0 + 1] : i0 \in {SkipSpace(s, i)}})

\* mutant of ParseExpr: only iss >> a >> op is tested; a failed >> b
\* leaves b = 0
ParseExpr_UncheckedB(line) ==
    LET ThenB(a, op) ==
            Only({[ok |-> TRUE, a |-> a.val, op |-> op.val, b |-> b.val] :
                    b \in {ExtractDouble(line, op.next)}})
        ThenOp(a) ==
            IF ~a.ok THEN [ok |-> FALSE]
            ELSE Only({IF ~op.ok THEN [ok |-> FALSE] ELSE ThenB(a, op) :
                        op \in {ExtractChar(line, a.next)}})
    IN  Only({ThenOp(a) : a \in {ExtractDouble(line, 1)}})

\* iss >> a >> op >> b: after a failure the later extractions do nothing
ParseExpr(line) ==
    LET ThenB(a, op) ==
            Only({IF ~b.ok THEN [ok |-> FALSE]
                  ELSE [ok |-> TRUE, a |-> a.val, op |-> op.val, b |-> b.val] :
                    b \in {ExtractDouble(line, op.next)}})
        ThenOp(a) ==
            IF ~a.ok THEN [ok |-> FALSE]
            ELSE Only({IF ~op.ok THEN [ok |-> FALSE] ELSE ThenB(a, op) :
                        op \in {ExtractChar(line, a.next)}})
    IN  Only({ThenOp(a) : a \in {ExtractDouble(line, 1)}})

Less(x, y) == x.num * y.den < y.num * x.den

\* IEEE addition on sign and magnitude (x + (-x) is +0)
Add(x, y) ==
    IF x.neg = y.neg
    THEN Num(x.neg, x.num * y.den + y.num * x.den, x.den * y.den)
    ELSE IF Less(x, y)
    THEN Num(y.neg, y.num * x.den - x.num * y.den, x.den * y.den)
    ELSE IF Less(y, x)
    THEN Num(x.neg, x.num * y.den - y.num * x.den, x.den * y.den)
    ELSE Num(FALSE, 0, 1)

Negate(y) == [y EXCEPT !.neg = ~y.neg]

Sub(x, y) == Add(x, Negate(y))

Mul(x, y) == Num(x.neg # y.neg, x.num * y.num, x.den * y.den)

Div(x, y) == Num(x.neg # y.neg, x.num * y.den, x.den * y.num)

\* b == 0 (true of both zeros)
IsZero(y) == y.num = 0

Precision == 4

\* four digits, zero-padded
PadFrac(f) ==
    SubSeq("0000", 1, Precision - Len(ToStr(f))) \o ToStr(f)

\* oss << std::fixed << std::setprecision(4) << x: the texts it can print
Fixed(x) ==
    LET scaled == x.num * Pow10(Precision)
        u      == scaled \div x.den
        rem    == scaled - u * x.den
        units  == IF 2 * rem < x.den THEN {u}
                  ELSE IF 2 * rem > x.den THEN {u + 1}
                  ELSE {u, u + 1}
    IN  {(IF x.neg THEN "-" ELSE "") \o ToStr(w \div Pow10(Precision)) \o "."
            \o PadFrac(w % Pow10(Precision)) : w \in units}

\* res.erase(res.find_last_not_of('0') + 1); if (res.back() == '.') pop_back
\* under if (res.find('.') != npos)
StripZeros(res) ==
    IF ~Contains(res, ".") THEN res
    ELSE LET nz   == {i \in 1..Len(res) : CharAt(res, i) # "0"}
             lastNz == CHOOSE i \in nz : \A j \in nz : i >= j
             cut  == SubSeq(res, 1, lastNz)
         IN  IF CharAt(cut, Len(cut)) = "." THEN SubSeq(cut, 1, Len(cut) - 1)
             ELSE cut

\* the line botSay gets for a valid computation
ResultLines(a, op, b, result) ==
    {StripZeros(fa \o " " \o op \o " " \o fb \o " = " \o fr) :
        fa \in Fixed(a), fb \in Fixed(b), fr \in Fixed(result)}

IsCalcExit(line) == toLower(line) \in {"done", "exit", "back", "quit"}

\* case '/': if (b == 0)
DivisionByZero(b) == IsZero(b)

UsageText == "Please enter: <number> <operator> <number>  (e.g. 5 + 3)"

Stay(events) == [out |-> events, exit |-> FALSE]

\* the switch on op and the printing of a valid result
calcEval(e) ==
    IF e.op = "/" /\ DivisionByZero(e.b)
    THEN {Stay(<<Ev("calc-divzero",
                    "Division by zero! The universe would implode.")>>)}
    ELSE IF e.op \notin {"+", "-", "*", "x", "/"}
    THEN {Stay(<<Ev("calc-unknown-op",
                    "Unknown operator '" \o e.op \o "'. Use + - * /")>>)}
    ELSE {Stay(<<Ev("calc-result", res)>>) :
            res \in UNION {ResultLines(e.a, e.op, e.b, result) :
                            result \in {CASE e.op = "+" -> Add(e.a, e.b)
                                          [] e.op = "-" -> Sub(e.a, e.b)
                                          [] e.op = "/" -> Div(e.a, e.b)
                                          [] OTHER      -> Mul(e.a, e.b)}}}

\* one pass of the loop of runCalculator on the line read: the output and
\* whether the loop is left (break)
calcStep(raw) ==
    LET OnLine(line) ==
            IF IsCalcExit(line)
            THEN {[out  |-> <<Ev("calc-exit", "Exiting calculator. Back to chat!")>>,
                   exit |-> TRUE]}
            ELSE UNION {IF ~e.ok THEN {Stay(<<Ev("calc-usage", UsageText)>>)}
                        ELSE calcEval(e) : e \in {ParseExpr(line)}}
    IN  UNION {OnLine(line) : line \in {trim(raw)}}

(***************************************************************************)
(* The session: ChatBot::run, welcomeSequence, runCalculator               *)
(*                                                                         *)
(* pc is where the program waits for a line: "welcome1" and "welcome2" in  *)
(* welcomeSequence, "chat" at the prompt of run, "calc" at the prompt of   *)
(* runCalculator, "done" after run has returned.  eof: std::cin has met    *)
(* the end of input (every later getline fails).  out: what the last step  *)
(* printed.  goodbyes: the calls of showGoodbye so far.  chatLog: the raw  *)
(* lines read at the chat prompt; calcReads: the lines read at the         *)
(* calculator prompt; last: the last step and the line it read.            *)
(***************************************************************************)

Step(op, line) == [op |-> op, line |-> line]

\* showGoodbye: the farewell and the session statistics
showGoodbye(hist) ==
    {<<Ev("goodbye", "Goodbye! Thanks for chatting."),
       Ev("goodbye-stats", "Session lasted: " \o formatDuration(elapsed)
                           \o " | Messages: " \o ToStr(Len(hist)))>> :
        elapsed \in ElapsedSamples}

Init ==
    /\ pc = "welcome1"
    /\ running_ = TRUE
    /\ history_ = <<>>
    /\ eof = FALSE
    /\ out = <<Ev("welcome", "Welcome! Would you like to start chatting? (y/n)")>>
    /\ goodbyes = 0
    /\ chatLog = <<>>
    /\ calcReads = 0
    /\ last = Step("start", "")

IsYes(input) == input = "y" \/ input = "yes"

\* welcomeSequence, first question: anything but y/yes ends the program
WelcomeFirst(Lines) ==
    /\ pc = "welcome1"
    /\ ~eof
    /\ \E raw \in Lines :
        /\ last' = Step("welcome1", raw)
        /\ IF ~IsYes(normalize(raw))
           THEN /\ out' = <<Ev("welcome", "No worries - see you next time!")>>
                /\ pc' = "done"
           ELSE /\ out' = <<Ev("welcome", "Would you like to see what I can do? (y/n)")>>
                /\ pc' = "welcome2"
    /\ UNCHANGED <<running_, history_, eof, goodbyes, chatLog, calcReads>>

\* welcomeSequence, second question: y/yes shows the help, then the chat starts
WelcomeSecond(Lines) ==
    /\ pc = "welcome2"
    /\ ~eof
    /\ \E raw \in Lines :
        /\ last' = Step("welcome2", raw)
        /\ out' = (IF IsYes(normalize(raw))
                   THEN <<Ev("help", "AVAILABLE COMMANDS")>> ELSE <<>>)
                  \o <<Ev("welcome", "Let's chat! Type anything or 'help' for commands. Type 'bye' to exit.")>>
        /\ pc' = "chat"
    /\ UNCHANGED <<running_, history_, eof, goodbyes, chatLog, calcReads>>

\* getline fails in welcomeSequence: it returns false and run returns at once
WelcomeEOF ==
    /\ pc \in {"welcome1", "welcome2"}
    /\ pc' = "done"
    /\ eof' = TRUE
    /\ out' = <<>>
    /\ last' = Step("welcomeEOF", "")
    /\ UNCHANGED <<running_, history_, goodbyes, chatLog, calcReads>>

\* mutant of SkipsInput: the empty input is not skipped
SkipsInput_Never(input) == FALSE

\* if (input.empty()) continue
SkipsInput(input) == input = ""

\* one pass of the loop of run on a line read: normalize, skip or record
\* and dispatch; then the loop test, and showGoodbye when it fails.
\* Elapsed: the readings of the clock the uptime command can meet
ChatLineAt(Lines, maxLines, Elapsed) ==
    /\ pc = "chat"
    /\ running_
    /\ ~eof
    /\ Len(chatLog) < maxLines
    /\ \E raw \in Lines : \E input \in {normalize(raw)} :
        LET hist == Append(history_, input)
        IN  /\ chatLog' = Append(chatLog, raw)
            /\ last' = Step("chatLine", raw)
            /\ IF SkipsInput(input)
               THEN /\ out' = <<>>
                    /\ UNCHANGED <<pc, running_, history_, goodbyes>>
               ELSE \E r \in processInputAt(input, hist, Elapsed) :
                    /\ history_' = hist
                    /\ running_' = r.running
                    /\ IF r.calc
                       THEN pc' = "calc" /\ out' = r.out /\ goodbyes' = goodbyes
                       ELSE IF r.running
                       THEN pc' = "chat" /\ out' = r.out /\ goodbyes' = goodbyes
                       ELSE \E bye \in showGoodbye(hist) :
                            /\ pc' = "done"
                            /\ out' = r.out \o bye
                            /\ goodbyes' = goodbyes + 1
    /\ UNCHANGED <<eof, calcReads>>

\* a pass of the loop of run under the sample readings of the clock
ChatLine(Lines, maxLines) == ChatLineAt(Lines, maxLines, ElapsedSamples)

\* getline fails at the chat prompt: break, then showGoodbye
ChatEOF ==
    /\ pc = "chat"
    /\ running_
    /\ \E bye \in showGoodbye(history_) :
        /\ out' = bye
    /\ pc' = "done"
    /\ eof' = TRUE
    /\ goodbyes' = goodbyes + 1
    /\ last' = Step("chatEOF", "")
    /\ UNCHANGED <<running_, history_, chatLog, calcReads>>

\* mutant of CalcLine: the line read is also recorded in history_
CalcLine_Recording(Lines, maxLines) ==
    /\ pc = "calc"
    /\ ~eof
    /\ calcReads < maxLines
    /\ \E raw \in Lines :
        \E r \in calcStep(raw) :
            /\ out' = r.out
            /\ pc' = IF r.exit THEN "chat" ELSE "calc"
            /\ last' = Step("calcLine", raw)
            /\ history_' = Append(history_, normalize(raw))
    /\ calcReads' = calcReads + 1
    /\ UNCHANGED <<running_, eof, goodbyes, chatLog>>

\* one pass of the loop of runCalculator on a line read; on break
\* runCalculator and processInput return and run tests running_ again
CalcLine(Lines, maxLines) ==
    /\ pc = "calc"
    /\ ~eof
    /\ calcReads < maxLines
    /\ \E raw \in Lines :
        \E r \in calcStep(raw) :
            /\ out' = r.out
            /\ pc' = IF r.exit THEN "chat" ELSE "calc"
            /\ last' = Step("calcLine", raw)
    /\ calcReads' = calcReads + 1
    /\ UNCHANGED <<running_, history_, eof, goodbyes, chatLog>>

\* getline fails at the calculator prompt: break without a message
CalcEOF ==
    /\ pc = "calc"
    /\ pc' = "chat"
    /\ eof' = TRUE
    /\ out' = <<>>
    /\ last' = Step("calcEOF", "")
    /\ UNCHANGED <<running_, history_, goodbyes, chatLog, calcReads>>

(***************************************************************************)
(* Inputs and bounds                                                       *)
(***************************************************************************)

MaxChatLines == 3
MaxCalcLines == 2
MaxDispatchLines == 1
MaxHistoryLines == 22
MaxHistoryCmds == 2
MaxElapsed == 7322
MaxRawLen == 3

WelcomeLines == {"y", " Yes ", "n", ""}

\* lines typed at the chat prompt in a session
SessionLines ==
    {"bye", "exit", "QUIT", " q ", "", " \t ", "  Hello\t", "calc", "thx"}

\* lines typed at the calculator prompt
CalcLines ==
    {"5 + 3", "7 / 2", "10 / 0", "0 / 0", "bad input", "", "5 +", "5 % 3",
     "5 x 3", "2 - 5", "1 / 3", "1.5 * 2", "-2.50*4", "5+3", "1 / 32",
     "2e1 - .5", "5e + 1", "4 ^ 2", "0 * -1", "9 / 4 tail",
     "done", " DONE ", "Exit", "back", "quit\t", "donee"}

\* the tokens processInput compares its input with
CommandTokens ==
    {"bye", "exit", "quit", "q", "help", "manual", "commands",
     "joke", "tell me a joke", "tell a joke", "fact", "tell me a fact",
     "fun fact", "time", "date", "what time is it?", "what time is it",
     "what's the time?", "what is the date?", "what is the date",
     "flip", "flip a coin", "coin flip", "coin",
     "roll", "roll a dice", "roll dice", "dice", "uptime", "session",
     "history", "show history", "clear", "cls",
     "calc", "calculate", "calculator", "math", "add", "sum", "add numbers",
     "can you add integers for me?", "can you calculate for me?"}

\* lines that reach the prefix commands or the resolver's later stages
OtherLines ==
    {"reverse hello", "reverse abc", "reverse  a b", "Reverse Yes No", "reverse",
     "reverse x", "count thanks", "count one two three", "count   a   b", "count",
     "count   a   b  ", "Count a\tb c", "count ?",
     "counting sheep", "reversed", "  HELLO  ", "Thanks a lot", "hello and thanks",
     "oh hi", "no way", "ok then", "hi no ok", "xyzzy", "why not okay?",
     "nice and cool", "", "   ", "ye", "say yes", "bye bye", "quit now",
     "help me", "what's up? hm"}

DispatchLines ==
    CommandTokens \cup DOMAIN responses_ \cup DOMAIN aliases_ \cup OtherLines

DispatchCalcLines == {"done", "5 + 3", "oops"}

\* the characters of the lines typed to exercise normalize: blanks that trim
\* strips, a letter in both cases, a character that neither changes
RawAlphabet == {" ", "\t", "\r", "y", "Y", "?"}

\* every line of at most n characters of RawAlphabet
RECURSIVE RawLinesUpTo(_)
RawLinesUpTo(n) ==
    IF n = 0 THEN {""}
    ELSE UNION {P \cup {c \o l : c \in RawAlphabet, l \in P} :
                    P \in {RawLinesUpTo(n - 1)}}

RawLines == RawLinesUpTo(MaxRawLen)

\* the lines that ask for the uptime
UptimeLines == {"uptime", "Session", " UPTIME "}

\* the next message of a session that only chats and asks for its history:
\* message k is "m<k>", and at most MaxHistoryCmds history commands are typed
HistoryLines ==
    {"m" \o ToStr(Len(history_) + 1)}
    \cup (IF Cardinality({i \in DOMAIN history_ : IsHistory(history_[i])})
                < MaxHistoryCmds
          THEN {"history", "Show History"} ELSE {})

(***************************************************************************)
(* Specifications                                                          *)
(***************************************************************************)

\* a session with the calculator
Next ==
    \/ WelcomeFirst(WelcomeLines)
    \/ WelcomeSecond(WelcomeLines)
    \/ WelcomeEOF
    \/ ChatLine(SessionLines, MaxChatLines)
    \/ ChatEOF
    \/ CalcLine(CalcLines, MaxCalcLines)
    \/ CalcEOF

Spec == Init /\ [][Next]_vars

\* every command token, canonical phrase and alias at the chat prompt
NextDispatch ==
    \/ WelcomeFirst(WelcomeLines)
    \/ WelcomeSecond(WelcomeLines)
    \/ WelcomeEOF
    \/ ChatLine(DispatchLines, MaxDispatchLines)
    \/ ChatEOF
    \/ CalcLine(DispatchCalcLines, MaxCalcLines)
    \/ CalcEOF

SpecDispatch == Init /\ [][NextDispatch]_vars

\* a long chat with history commands
NextHistory ==
    \/ WelcomeFirst(WelcomeLines)
    \/ WelcomeSecond(WelcomeLines)
    \/ WelcomeEOF
    \/ ChatLine(HistoryLines, MaxHistoryLines)
    \/ ChatEOF

SpecHistory == Init /\ [][NextHistory]_vars

\* a session that asks for its uptime once, at any reading of the clock up
\* to MaxElapsed seconds
NextUptime ==
    \/ WelcomeFirst(WelcomeLines)
    \/ WelcomeSecond(WelcomeLines)
    \/ WelcomeEOF
    \/ ChatLineAt(UptimeLines, 1, 0..MaxElapsed)
    \/ ChatEOF

SpecUptime == Init /\ [][NextUptime]_vars

\* the two questions of welcomeSequence, answered by any line of RawLines
NextNormalize ==
    \/ WelcomeFirst(RawLines)
    \/ WelcomeSecond(RawLines)
    \/ WelcomeEOF

SpecNormalize == Init /\ [][NextNormalize]_vars

(***************************************************************************)
(* Claims                                                                  *)
(***************************************************************************)

\* the last step read a line at the chat prompt
AtChatLine == last.op = "chatLine"

\* the normalized form of the line the last step read
LastInput == normalize(last.line)

\* the command patterns as the claims list them
ClaimCommand(input) ==
    \/ input \in CommandTokens
    \/ (Len(input) > 8 /\ SubSeq(input, 1, 8) = "reverse ")
    \/ (Len(input) > 6 /\ SubSeq(input, 1, 6) = "count ")

ResolverKinds == {"alias", "direct", "partial", "nomatch"}

ResolverTexts == {initResponses[k] : k \in DOMAIN initResponses} \cup {NoMatchText}

\* C1: a non-empty normalized input that matches a command pattern gets no
\* output of the response resolver: no alias, lexicon, substring-fallback or
\* default response, even when it contains a lexicon key of 3 or more
\* characters.
C1_CommandPriority ==
    (AtChatLine /\ LastInput # "" /\ ClaimCommand(LastInput))
        => \A i \in DOMAIN out :
                /\ out[i].kind \notin ResolverKinds
                /\ out[i].text \notin ResolverTexts

\* "reverse hello" contains the key "hello" and was answered by the reversal
C1_Witness ==
    /\ AtChatLine
    /\ LastInput = "reverse hello"
    /\ out = <<Ev("reverse", "\"olleh\"")>>

\* C2: the normalized input k, a key of the lexicon, is answered by exactly
\* lexicon[k], through the direct lookup.
C2_CanonicalPhrase ==
    (AtChatLine /\ LastInput \in DOMAIN initResponses)
        => out = <<Ev("direct", initResponses[LastInput])>>

C2_Witness ==
    /\ AtChatLine
    /\ LastInput = "thanks"
    /\ out = <<Ev("direct", "Anytime! That's what I'm here for.")>>

\* C3: every alias target is a key of the lexicon, and the normalized input
\* a, an alias, is answered by exactly lexicon[aliasTarget(a)].
C3_Alias ==
    /\ \A a \in DOMAIN initAliases : initAliases[a] \in DOMAIN initResponses
    /\ (AtChatLine /\ LastInput \in DOMAIN initAliases)
        => out = <<Ev("alias", initResponses[initAliases[LastInput]])>>

C3_Witness ==
    /\ AtChatLine
    /\ LastInput = "sup"
    /\ out = <<Ev("alias", "Just processing bits and bytes. You?")>>

\* the lexicon keys of 3 or more characters that the input contains
LongKeysIn(input) ==
    {k \in DOMAIN initResponses : Len(k) >= 3 /\ Contains(input, k)}

\* C4: an input that is no command, no alias and no lexicon key is answered
\* by the response of a lexicon key of 3 or more characters that it
\* contains, if there is one, and by the default message otherwise.
C4_SubstringFallback ==
    (/\ AtChatLine
     /\ LastInput # ""
     /\ ~ClaimCommand(LastInput)
     /\ LastInput \notin DOMAIN initAliases
     /\ LastInput \notin DOMAIN initResponses)
        => /\ Len(out) = 1
           /\ IF LongKeysIn(LastInput) # {}
              THEN out[1].text \in {initResponses[k] : k \in LongKeysIn(LastInput)}
              ELSE out[1].text = NoMatchText

\* "hello and thanks" contains two long keys and got the response of one
C4_Witness ==
    /\ AtChatLine
    /\ LastInput = "hello and thanks"
    /\ out = <<Ev("partial", "Anytime! That's what I'm here for.")>>

ExitTokens == {"bye", "exit", "quit", "q"}

\* C5: an exit token at the chat prompt is the last line read there, and
\* it, like the end of input at the chat prompt, ends run with showGoodbye
\* called exactly once; after run has returned no step reads anything.
C5_ExitSaysGoodbyeOnce ==
    /\ \A i \in DOMAIN chatLog :
            normalize(chatLog[i]) \in ExitTokens
                => /\ i = Len(chatLog)
                   /\ last = Step("chatLine", chatLog[i])
                   /\ pc = "done"
                   /\ goodbyes = 1
    /\ last.op = "chatEOF" => (pc = "done" /\ goodbyes = 1)
    /\ goodbyes <= 1
    /\ pc = "done" => ~ENABLED Next

\* the session was ended by " q " after another line
C5_Witness ==
    /\ Len(chatLog) = 2
    /\ last = Step("chatLine", " q ")
    /\ pc = "done"
    /\ goodbyes = 1

CalcExitKeywords == {"done", "exit", "back", "quit"}

\* calculator lines with a recoverable error: malformed, unknown operator,
\* division by zero
MalformedLines == {"bad input", "", "5 +", "5e + 1", "donee"}
UnknownOperatorLines == {"5 % 3", "4 ^ 2"}
DivisionByZeroLines == {"10 / 0", "0 / 0"}

\* C6: a calculator line that is no exit keyword leaves the calculator
\* active, an exit keyword (in any case) leaves it; a malformed line, an
\* unknown operator and a division by zero print one warning and no result.
C6_CalculatorStaysActive ==
    last.op = "calcLine"
        => /\ (toLower(trim(last.line)) \in CalcExitKeywords) => pc = "chat"
           /\ (toLower(trim(last.line)) \notin CalcExitKeywords) => pc = "calc"
           /\ (last.line \in MalformedLines \cup UnknownOperatorLines
                             \cup DivisionByZeroLines)
                => /\ Len(out) = 1
                   /\ out[1].kind = (IF last.line \in MalformedLines
                                     THEN "calc-usage"
                                     ELSE IF last.line \in UnknownOperatorLines
                                     THEN "calc-unknown-op"
                                     ELSE "calc-divzero")
                   /\ ~Contains(out[1].text, "=")

\* "10 / 0" was read as the second calculator line and the prompt is back
C6_Witness ==
    /\ last = Step("calcLine", "10 / 0")
    /\ calcReads = 2
    /\ pc = "calc"
    /\ out[1].kind = "calc-divzero"

\* a number as the claim says it is shown: up to 4 decimals, trailing zeros
\* and a trailing point stripped
Shown(x) == {StripZeros(f) : f \in Fixed(x)}

\* the result line the claim describes for the parsed expression e
ClaimedResultLines(e) ==
    LET result == CASE e.op = "+" -> Add(e.a, e.b)
                    [] e.op = "-" -> Sub(e.a, e.b)
                    [] e.op = "/" -> Div(e.a, e.b)
                    [] OTHER      -> Mul(e.a, e.b)
    IN  {sa \o " " \o e.op \o " " \o sb \o " = " \o sr :
            sa \in Shown(e.a), sb \in Shown(e.b), sr \in Shown(result)}

\* C7: the result line of a well-formed "a op b" is "<a> <op> <b> = <result>"
\* with every number stripped of trailing zeros ("5 + 3" gives "5 + 3 = 8").
C7_ResultFormat ==
    (last.op = "calcLine" /\ Len(out) = 1 /\ out[1].kind = "calc-result")
        => out[1].text \in ClaimedResultLines(ParseExpr(trim(last.line)))

NonEmpty(s) == s # ""

\* C8: the history is the normalized forms of the lines read at the chat
\* prompt, in order, without the empty ones; an empty one prints nothing and
\* the prompt comes back.
C8_HistoryIsTheLog ==
    /\ history_ = SelectSeq([i \in DOMAIN chatLog |-> normalize(chatLog[i])],
                            NonEmpty)
    /\ (AtChatLine /\ LastInput = "") => (out = <<>> /\ pc = "chat")

\* two blank lines around one message: one entry
C8_Witness ==
    /\ chatLog = <<"", "  Hello\t", " \t ">>
    /\ history_ = <<"hello">>

\* C9: the history command, run with n recorded messages, lists the last
\* min(n, 20) of them, oldest first, and reports min(n, 20) and n.
C9_HistoryDisplay ==
    (AtChatLine /\ LastInput \in {"history", "show history"})
        => LET n == Len(history_)
               k == Min(n, 20)
           IN  /\ Len(out) = 1
               /\ out[1].kind = "history"
               /\ Len(out[1].entries) = k
               /\ [i \in 1..k |-> out[1].entries[i][2]]
                    = SubSeq(history_, n - k + 1, n)
               /\ out[1].text = "Showing last " \o ToStr(k) \o " of "
                                \o ToStr(n) \o " messages."

\* with 22 messages recorded the listing starts at the third
C9_Witness ==
    /\ AtChatLine
    /\ LastInput = "history"
    /\ Len(history_) = 22
    /\ Len(out[1].entries) = 20
    /\ out[1].entries[1] = <<3, "m3">>
    /\ out[1].text = "Showing last 20 of 22 messages."

\* C10: "reverse " followed by text is answered by the text after the 8
\* characters, reversed character by character, in quotes; "reverse" alone
\* goes to the response resolver.
C10_Reverse ==
    /\ (AtChatLine /\ Len(LastInput) > 8 /\ SubSeq(LastInput, 1, 8) = "reverse ")
        => LET n == Len(LastInput) - 8
           IN  /\ Len(out) = 1
               /\ out[1].kind = "reverse"
               /\ Len(out[1].text) = n + 2
               /\ CharAt(out[1].text, 1) = "\""
               /\ CharAt(out[1].text, n + 2) = "\""
               /\ \A i \in 1..n :
                    CharAt(out[1].text, 1 + i) = CharAt(LastInput, 8 + n + 1 - i)
    /\ (AtChatLine /\ LastInput = "reverse")
        => (Len(out) = 1 /\ out[1].kind \in ResolverKinds)

C10_Witness ==
    /\ AtChatLine
    /\ LastInput = "reverse  a b"
    /\ out = <<Ev("reverse", "\"b a \"")>>

\* the number of maximal runs of non-whitespace characters of s, read from
\* left to right; inToken: the character before s belongs to a run
RECURSIVE TokenCount(_, _)
TokenCount(s, inToken) ==
    IF s = "" THEN 0
    ELSE IF Head(s) \in {" ", "\t", "\n", "\r", "\f"}
    THEN TokenCount(Tail(s), FALSE)
    ELSE (IF inToken THEN 0 ELSE 1) + TokenCount(Tail(s), TRUE)

\* C11: "count " followed by at least one character is answered by
\* "Word count: " and the number of non-empty tokens that splitting the
\* remainder on runs of whitespace gives; "count" alone goes to the
\* response resolver.
C11_WordCount ==
    /\ (AtChatLine /\ Len(LastInput) > 6 /\ SubSeq(LastInput, 1, 6) = "count ")
        => out = <<Ev("count", "Word count: "
                       \o ToStr(TokenCount(SubSeq(LastInput, 7, Len(LastInput)),
                                           FALSE)))>>
    /\ (AtChatLine /\ LastInput = "count")
        => (Len(out) = 1 /\ out[1].kind \in ResolverKinds)

C11_Witness ==
    /\ AtChatLine
    /\ last.line = "count   a   b  "
    /\ history_ = <<"count   a   b">>
    /\ out = <<Ev("count", "Word count: 2")>>

\* C12: the uptime line reports a reading of s whole seconds as
\* "<H>h <M>m <S>s" with H*3600 + M*60 + S = s, 0 <= M < 60 and
\* 0 <= S < 60; 3661 seconds are reported as "1h 1m 1s".
C12_DurationFormat ==
    (AtChatLine /\ LastInput \in {"uptime", "session"})
        => /\ Len(out) = 1
           /\ out[1].kind = "uptime"
           /\ \E H \in 0..(out[1].elapsed \div 3600), M \in 0..59 :
                \E S \in {out[1].elapsed - H * 3600 - M * 60} :
                    /\ 0 <= S /\ S < 60
                    /\ out[1].text = "Session uptime: " \o ToStr(H) \o "h "
                                        \o ToStr(M) \o "m " \o ToStr(S) \o "s"
                                        \o " | Messages: 1"
           /\ out[1].elapsed = 3661
                => out[1].text = "Session uptime: 1h 1m 1s | Messages: 1"

C12_Witness ==
    /\ AtChatLine
    /\ LastInput = "uptime"
    /\ out[1].kind = "uptime"
    /\ out[1].elapsed = 7199
    /\ out[1].text = "Session uptime: 1h 59m 59s | Messages: 1"

\* the last step read a line in welcomeSequence
AtWelcomeLine == last.op \in {"welcome1", "welcome2"}

\* C13: normalizing is idempotent: normalizing the normalized form of a line
\* gives the normalized form again.
C13_NormalizeIdempotent ==
    AtWelcomeLine => normalize(normalize(last.line)) = normalize(last.line)

C13_Witness ==
    /\ last = Step("welcome2", "\tY ")
    /\ normalize(last.line) = "y"
    /\ pc = "chat"
    /\ out[1].kind = "help"

\* run has left its loop (showGoodbye follows the loop and nothing else
\* calls it)
LoopTerminated == pc = "done" /\ goodbyes > 0

\* C14 as stated: whenever the main chat loop has terminated, the running
\* flag is false, its falsity being the sole termination condition.
C14_FalseWheneverTerminated == LoopTerminated => ~running_

\* C14: the running flag is true from the start until an exit command sets
\* it false, nothing else sets it and nothing sets it back; the main loop
\* terminates when the flag is false or when the end of input is met at its
\* prompt, so after the loop either the flag is false or the input has ended,
\* never both.
C14_RunningFlag ==
    /\ pc # "done" => running_
    /\ ~running_ => (AtChatLine /\ LastInput \in ExitTokens /\ LoopTerminated)
    /\ (AtChatLine /\ LastInput \in ExitTokens) => ~running_
    /\ LoopTerminated => (running_ <=> eof)
    /\ (LoopTerminated /\ running_) => last.op = "chatEOF"

C14_Witness ==
    /\ LoopTerminated
    /\ last.op = "chatEOF"
    /\ running_
    /\ eof
    /\ goodbyes = 1
    /\ history_ = <<"hello", "thx">>

\* what the calculator prints
CalcKinds ==
    {"calc-exit", "calc-usage", "calc-divzero", "calc-unknown-op", "calc-result"}

\* C15: a step taken at the calculator prompt leaves the history and the
\* running flag alone, prints nothing but calculator output and says no
\* goodbye; a line that is an exit keyword there (case-insensitive, trimmed)
\* only returns to the chat prompt, where the session goes on.
C15_CalculatorIsolation ==
    [][pc = "calc" =>
        /\ history_' = history_
        /\ running_ /\ running_'
        /\ goodbyes' = goodbyes
        /\ pc' \in {"calc", "chat"}
        /\ \A i \in DOMAIN out' : out'[i].kind \in CalcKinds
        /\ (last'.op = "calcLine"
                /\ toLower(trim(last'.line)) \in CalcExitKeywords)
            => (pc' = "chat" /\ ~eof'
                /\ out' = <<Ev("calc-exit", "Exiting calculator. Back to chat!")>>)
      ]_vars

C15_Witness ==
    /\ last = Step("calcLine", "Exit")
    /\ out[1].kind = "calc-exit"
    /\ pc = "chat"
    /\ running_
    /\ ~eof
    /\ goodbyes = 0
    /\ history_ = <<"hello", "calc">>

\* a key that the prefix commands would take: it begins with "reverse " or
\* "count "
BeginsWithPrefixCommand(k) ==
    \/ (Len(k) >= 8 /\ SubSeq(k, 1, 8) = "reverse ")
    \/ (Len(k) >= 6 /\ SubSeq(k, 1, 6) = "count ")

\* the resolver of the claim: the direct lookup before the alias resolution,
\* the later stages as implemented
resolveDirectFirst(input) ==
    IF input \in DOMAIN responses_
    THEN {Said(<<Ev("direct", responses_[input])>>)}
    ELSE IF input \in DOMAIN aliases_ /\ aliases_[input] \in DOMAIN responses_
    THEN {Said(<<Ev("alias", responses_[aliases_[input]])>>)}
    ELSE IF PartialKeys(input) # {}
    THEN {Said(<<Ev("partial", responses_[key])>>) : key \in PartialKeys(input)}
    ELSE {Said(<<Ev("nomatch", NoMatchText)>>)}

\* the response texts a set of outcomes can show
TextsOf(outcomes) == {r.out[1].text : r \in outcomes}

\* C16: the command tokens, the alias keys and the lexicon keys are pairwise
\* disjoint and no alias or lexicon key begins with "reverse " or "count ";
\* the response the program gives to a line that is no command is a response
\* of the direct-first resolver, and the two resolvers can give the same
\* responses to every line read.
C16_ResolverOrderIrrelevant ==
    /\ CommandTokens \cap DOMAIN aliases_ = {}
    /\ CommandTokens \cap DOMAIN responses_ = {}
    /\ DOMAIN aliases_ \cap DOMAIN responses_ = {}
    /\ \A k \in DOMAIN aliases_ \cup DOMAIN responses_ : ~BeginsWithPrefixCommand(k)
    /\ (AtChatLine /\ LastInput # "")
        => TextsOf(resolve(LastInput)) = TextsOf(resolveDirectFirst(LastInput))
    /\ (AtChatLine /\ LastInput # "" /\ ~ClaimCommand(LastInput))
        => /\ Len(out) = 1
           /\ out[1].text \in TextsOf(resolveDirectFirst(LastInput))

C16_Witness ==
    /\ AtChatLine
    /\ LastInput = "thx"
    /\ resolveDirectFirst(LastInput) = {Said(<<Ev("alias", responses_["thanks"])>>)}
    /\ out = <<Ev("alias", "Anytime! That's what I'm here for.")>>

====
